---- MODULE Spec2Model ----
(***************************************************************************)
(* A model of trl/Agentis_utils/utils.py: the code extractor get_code, the *)
(* two executors (E2BExecutor, LocalExecutor), read_script, the system-    *)
(* message step of prepare_data_for_e2b_agent / prepare_data_for_local_    *)
(* agent, and the batch loop generate_agent_responses.                     *)
(*                                                                         *)
(* Text is a sequence of tokens.  In SpecCode a token is one character of  *)
(* the alphabet {a, b}, so that a marker may overlap itself as a Python    *)
(* string may; in Spec (the agent loop) the markers "<code>", "</code>",   *)
(* "<output>" and "</output>" are one token each.                          *)
(***************************************************************************)
EXTENDS Integers, Sequences, FiniteSets, TLC

\* ------------------------------------------------------------------ bounds
\* longest chat given to get_code in SpecCode
MaxLen == 4
\* longest marker given to get_code in SpecCode
MaxMarker == 2
\* most prompts in the dataset given to generate_agent_responses
MaxItems == 2
\* most rounds (calls of llm.generate) the model follows
MaxRounds == 2
\* most calls of code_executer.execute the model follows
MaxExecs == 3
\* most conversations in the dataset given to prepare_data_for_*_agent
MaxConvs == 2
\* most messages in one of these conversations
MaxMsgs == 2
\* how many times the caller prepares the same dataset
MaxCalls == 2

\* -------------------------------------------------------------- text helpers
\* all sequences over S of length lo..hi
SeqsOf(S, lo, hi) == UNION {[1..n -> S] : n \in lo..hi}

\* sep occurs in s at position i
OccursAt(s, sep, i) ==
    /\ i >= 1
    /\ i + Len(sep) - 1 <= Len(s)
    /\ SubSeq(s, i, i + Len(sep) - 1) = sep

Occurrences(s, sep) == {i \in 1..Len(s) : OccursAt(s, sep, i)}

Contains(s, sep) == Occurrences(s, sep) # {}

SetMin(S) == CHOOSE x \in S : \A y \in S : x <= y
SetMax(S) == CHOOSE x \in S : \A y \in S : x >= y

\* str.split(sep)[0] in place of [-1]: the text before the first marker
PieceFirst(pieces) == pieces[1]

\* str.split(sep), sep non-empty: a left-to-right scan that cuts at the first
\* occurrence and goes on after the end of it (occurrences never overlap).
RECURSIVE Split(_, _)
Split(s, sep) ==
    IF ~Contains(s, sep)
    THEN <<s>>
    ELSE LET i == SetMin(Occurrences(s, sep))
         IN  <<SubSeq(s, 1, i - 1)>> \o Split(SubSeq(s, i + Len(sep), Len(s)), sep)

\* pieces[-1]
PieceLast(pieces) == pieces[Len(pieces)]

\* the text a falsy tools_script stands for: None and "" alike
NoScript == <<>>

NL == <<"\n">>

\* get_code(chat, tools_script, parsing_string)
get_code(chat, script, marker) ==
    LET code == PieceLast(Split(chat, marker))
    IN  IF script # NoScript THEN script \o NL \o code ELSE code

\* ------------------------------------------------------------------- state
VARIABLES
    \* get_code called on its own (SpecCode)
    g_pc, g_chat, g_script, g_marker, g_result,
    \* generate_agent_responses: its arguments
    dataset, tools_script_path, code_executer,
    \* its position, its locals and what it returns or raises
    pc, stop, tools_script, completed_chats, current_batch, next_batch,
    outputs, idx, conversation, code_to_execute, executed_result, ret, error,
    \* the sandboxes that are live
    sandboxes,
    \* history: which dataset item each transcript is, the calls made
    ids_current, ids_next, ids_completed, genCalls, hist, execRounds, doneRound,
    ended,
    \* history: the calls of llm.generate and code_executer.execute, in order
    calls,
    \* prepare_data_for_e2b_agent / prepare_data_for_local_agent: the function
    \* called, its arguments, its position and locals, what it raises
    p_fn, p_kind, p_dataset, p_source, p_pc, p_conversations, p_system_message,
    p_i, p_error,
    \* history: the dataset at the call, the conversations after the first
    \* call, the calls made, what apply_chat_template was last given
    p_orig, p_first, p_calls, p_templateCalls, p_rendered,
    \* the loop of generate_agent_responses with each chat taken as the index
    \* of its prompt (SpecLive): the script path, the size of the dataset, the
    \* position, the three lists, the stop reasons of the round, the index of
    \* the output at hand
    a_path, a_n, a_pc, a_batch, a_next, a_completed, a_reasons, a_idx,
    \* history: the items that were given a completion that did not stop on
    \* the stop string
    a_got

gvars == <<g_pc, g_chat, g_script, g_marker, g_result>>

args == <<dataset, tools_script_path, code_executer>>

locals == <<stop, tools_script, completed_chats, current_batch, next_batch,
            outputs, idx, conversation, code_to_execute, executed_result, ret, error>>

ghost == <<ids_current, ids_next, ids_completed, genCalls, hist, execRounds, doneRound,
           ended, calls>>

lvars == <<args, pc, locals, sandboxes, ghost>>

pvars == <<p_fn, p_kind, p_dataset, p_source, p_pc, p_conversations,
           p_system_message, p_i, p_error, p_orig, p_first, p_calls,
           p_templateCalls, p_rendered>>

avars == <<a_path, a_n, a_pc, a_batch, a_next, a_completed, a_reasons, a_idx,
           a_got>>

vars == <<gvars, lvars, pvars, avars>>


\* the inputs of get_code in SpecCode
Alphabet == {"a", "b"}
Chats == SeqsOf(Alphabet, 0, MaxLen)
Markers == SeqsOf(Alphabet, 1, MaxMarker)
Scripts == {NoScript, <<"h">>, <<"h", "\n">>}

IdleCode ==
    /\ g_pc = "idle"
    /\ g_chat = <<>>
    /\ g_script = NoScript
    /\ g_marker = <<"a">>
    /\ g_result = <<>>

\* the loop over prompt indices before it is called
IdleLive ==
    /\ a_path = "none"
    /\ a_n = 0
    /\ a_pc = "idle"
    /\ a_batch = <<>>
    /\ a_next = <<>>
    /\ a_completed = <<>>
    /\ a_reasons = <<>>
    /\ a_idx = 0
    /\ a_got = {}

\* prepare_data_for_*_agent before it is called
NoMessage == [role |-> "none", content |-> <<>>]

IdlePrepare ==
    /\ p_fn = "e2b"
    /\ p_kind = "conversations"
    /\ p_dataset = <<>>
    /\ p_source = "none"
    /\ p_pc = "idle"
    /\ p_conversations = <<>>
    /\ p_system_message = NoMessage
    /\ p_i = 0
    /\ p_error = "none"
    /\ p_orig = <<>>
    /\ p_first = <<>>
    /\ p_calls = 0
    /\ p_templateCalls = 0
    /\ p_rendered = <<>>

\* ------------------------------------------ Spec: generate_agent_responses
\* parsing_string and stop_string (the defaults), and the output tags
parsing_string == <<"<code>">>
stop_string == <<"</code>">>
OutputOpen == <<"<output>">>
OutputClose == <<"</output>">>

\* a stop_reason other than the stop string (vLLM: None)
None == <<"None">>
StopReasons == {stop_string, None}

\* the prompts of the dataset: one without and one with the open marker (the
\* default system prompt holds a <code> example)
Prompts == {<<"q">>, <<"<code>", "s", "q">>}
\* what llm.generate may give for one prompt: an answer that ends on its own,
\* an open code block that ends on its own, a code block that ends on the stop
\* string, and text with no open marker that ends on the stop string
Outcomes == {[text |-> <<"t">>, stop_reason |-> None],
             [text |-> <<"<code>", "k">>, stop_reason |-> None],
             [text |-> <<"<code>", "k">>, stop_reason |-> stop_string],
             [text |-> <<"k">>, stop_reason |-> stop_string]}

\* the datasets: up to MaxItems prompts, which begin with the same system prompt
Datasets == {[i \in 1..n |-> p] : n \in 0..MaxItems, p \in Prompts}

\* the content of a readable tools script
ScriptText == <<"h">>
Paths == {"none", "readable", "unreadable"}

\* the executors: E2BExecutor with and without dependencies, LocalExecutor
Executors == {[kind |-> "E2B", dependencies |-> FALSE],
              [kind |-> "E2B", dependencies |-> TRUE],
              [kind |-> "Local", dependencies |-> FALSE]}

\* str(result) of a run that succeeded, and LocalExecutor's error text
ResultText == <<"r">>
ErrorText == <<"Error executing code: ", "e">>

Items == 1..MaxItems

IdleLoop ==
    /\ pc = "idle"
    /\ dataset = <<>>
    /\ tools_script_path = "none"
    /\ code_executer = [kind |-> "Local", dependencies |-> FALSE]
    /\ stop = <<>>
    /\ tools_script = NoScript
    /\ completed_chats = <<>>
    /\ current_batch = <<>>
    /\ next_batch = <<>>
    /\ outputs = <<>>
    /\ idx = 0
    /\ conversation = <<>>
    /\ code_to_execute = <<>>
    /\ executed_result = <<>>
    /\ ret = <<>>
    /\ error = "none"
    /\ sandboxes = 0
    /\ ids_current = <<>>
    /\ ids_next = <<>>
    /\ ids_completed = <<>>
    /\ genCalls = 0
    /\ hist = [i \in Items |-> <<>>]
    /\ execRounds = {}
    /\ doneRound = [i \in Items |-> 0]
    /\ ended = "none"
    /\ calls = <<>>

InitAgent ==
    /\ pc = "call"
    /\ dataset \in Datasets
    /\ tools_script_path \in Paths
    /\ code_executer \in Executors
    /\ stop = <<>>
    /\ tools_script = NoScript
    /\ completed_chats = <<>>
    /\ current_batch = <<>>
    /\ next_batch = <<>>
    /\ outputs = <<>>
    /\ idx = 0
    /\ conversation = <<>>
    /\ code_to_execute = <<>>
    /\ executed_result = <<>>
    /\ ret = <<>>
    /\ error = "none"
    /\ sandboxes = 0
    /\ ids_current = <<>>
    /\ ids_next = <<>>
    /\ ids_completed = <<>>
    /\ genCalls = 0
    /\ hist = [i \in Items |-> <<>>]
    /\ execRounds = {}
    /\ doneRound = [i \in Items |-> 0]
    /\ ended = "none"
    /\ calls = <<>>
    /\ IdleCode
    /\ IdlePrepare
    /\ IdleLive

\* an exception leaves generate_agent_responses
Raise(e) ==
    /\ pc' = "raised"
    /\ error' = e

\* read_script going on with no text when the file cannot be read
read_script_silent(path) ==
    [ok |-> TRUE, text |-> IF path = "readable" THEN ScriptText ELSE NoScript]

\* read_script: the text of the file, or RuntimeError
read_script(path) ==
    IF path = "readable" THEN [ok |-> TRUE, text |-> ScriptText]
    ELSE [ok |-> FALSE, text |-> NoScript]

\* lines 253-258: the stop string is set, the tools script is read when a path
\* is given (its failure leaves the function), the two lists are set up
Call ==
    /\ pc = "call"
    /\ stop' = <<stop_string>>
    /\ IF tools_script_path # "none" /\ ~read_script(tools_script_path).ok
       THEN /\ Raise("ScriptReadError")
            /\ UNCHANGED <<tools_script, completed_chats, current_batch, ids_current>>
       ELSE /\ tools_script' = IF tools_script_path # "none"
                               THEN read_script(tools_script_path).text
                               ELSE NoScript
            /\ completed_chats' = <<>>
            /\ current_batch' = dataset
            /\ ids_current' = [i \in 1..Len(dataset) |-> i]
            /\ pc' = "loop"
            /\ UNCHANGED error
    /\ UNCHANGED <<args, next_batch, outputs, idx, conversation, code_to_execute,
                   executed_result, ret, sandboxes, ids_next, ids_completed, genCalls,
                   hist, execRounds, doneRound, ended, calls, gvars, pvars, avars>>

\* lines 260, 286: the working batch is empty, completed_chats is returned
Return ==
    /\ pc = "loop"
    /\ current_batch = <<>>
    /\ ret' = completed_chats
    /\ pc' = "returned"
    /\ UNCHANGED <<args, stop, tools_script, completed_chats, current_batch, next_batch,
                   outputs, idx, conversation, code_to_execute, executed_result, error,
                   sandboxes, ghost, gvars, pvars, avars>>

\* line 262 giving the generator the first chat of the batch alone
Submitted_first(batch) == <<batch[1]>>

\* line 262: what llm.generate is given: current_batch
Submitted(batch) == batch

\* lines 260-263: one call of llm.generate on the whole working batch, which
\* gives one output per prompt, in the order of the prompts
Generate ==
    /\ pc = "loop"
    /\ current_batch # <<>>
    /\ genCalls < MaxRounds
    /\ \E outs \in [1..Len(Submitted(current_batch)) -> Outcomes] :
          /\ outputs' = [i \in 1..Len(Submitted(current_batch)) |->
                           [prompt |-> Submitted(current_batch)[i],
                            text |-> outs[i].text,
                            stop_reason |-> outs[i].stop_reason]]
          /\ hist' = [j \in Items |->
                        IF \E i \in 1..Len(outs) : ids_current[i] = j
                        THEN LET i == CHOOSE i \in 1..Len(outs) : ids_current[i] = j
                             IN  Append(hist[j], [round |-> genCalls + 1,
                                                  stop_reason |-> outs[i].stop_reason])
                        ELSE hist[j]]
    /\ genCalls' = genCalls + 1
    /\ calls' = Append(calls, [op |-> "generate", round |-> genCalls + 1,
                               items |-> Submitted(ids_current)])
    /\ next_batch' = <<>>
    /\ ids_next' = <<>>
    /\ idx' = 1
    /\ pc' = "process"
    /\ UNCHANGED <<args, stop, tools_script, completed_chats, current_batch,
                   conversation, code_to_execute, executed_result, ret, error, sandboxes,
                   ids_current, ids_completed, execRounds, doneRound, ended, gvars, pvars, avars>>

\* line 271 taking every response as one that waits for code execution
WaitsForCode_always(output) == TRUE

\* line 271 deciding by the open marker in the text, not by the stop reason
WaitsForCode_text(output) == Contains(output.text, parsing_string)

\* line 271: the response waits for code execution
WaitsForCode(output) == output.stop_reason = stop_string

\* line 282 putting the chat at the front of the list
Complete_front(chats, chat) == <<chat>> \o chats

\* line 282 starting the list again with the chat
Complete_reset(chats, chat) == <<chat>>

\* line 282: completed_chats.append
Complete(chats, chat) == Append(chats, chat)

\* lines 266-275 and 280-282: the next output: its conversation is rebuilt;
\* when it stopped on the stop string its code is extracted and handed to the
\* executor, otherwise the conversation is complete
ProcessOutput ==
    /\ pc = "process"
    /\ idx <= Len(outputs)
    /\ LET output == outputs[idx]
           conv == output.prompt \o output.text
       IN  /\ conversation' = conv
           /\ IF WaitsForCode(output)
              THEN /\ Cardinality(execRounds) < MaxExecs
                   /\ code_to_execute' = get_code(conv, tools_script, parsing_string)
                   /\ execRounds' = execRounds \cup {<<ids_current[idx], genCalls>>}
                   /\ calls' = Append(calls, [op |-> "execute", round |-> genCalls,
                                              items |-> <<ids_current[idx]>>])
                   /\ pc' = IF code_executer.kind = "E2B" THEN "sbx_new" ELSE "local_run"
                   /\ UNCHANGED <<completed_chats, ids_completed, doneRound, idx>>
              ELSE /\ completed_chats' = Complete(completed_chats, conv)
                   /\ ids_completed' = Complete(ids_completed, ids_current[idx])
                   /\ doneRound' = [doneRound EXCEPT ![ids_current[idx]] = genCalls]
                   /\ idx' = idx + 1
                   /\ UNCHANGED <<code_to_execute, execRounds, calls, pc>>
    /\ UNCHANGED <<args, stop, tools_script, current_batch, next_batch, outputs,
                   executed_result, ret, error, sandboxes, ids_current, ids_next,
                   genCalls, hist, ended, gvars, pvars, avars>>

\* lines 277-279 leaving the updated conversation out of the next batch
Requeue_drop(result) ==
    /\ executed_result' = result
    /\ UNCHANGED <<next_batch, ids_next>>
    /\ idx' = idx + 1
    /\ pc' = "process"

\* line 277 leaving the stop string out of the updated conversation
Requeue_no_stop(result) ==
    LET updated_conversation == conversation \o OutputOpen \o result \o OutputClose
    IN  /\ executed_result' = result
        /\ next_batch' = Append(next_batch, updated_conversation)
        /\ ids_next' = Append(ids_next, ids_current[idx])
        /\ idx' = idx + 1
        /\ pc' = "process"

\* lines 277-279 appending the updated conversation twice
Requeue_twice(result) ==
    LET updated_conversation ==
            conversation \o stop_string \o OutputOpen \o result \o OutputClose
    IN  /\ executed_result' = result
        /\ next_batch' = next_batch \o <<updated_conversation, updated_conversation>>
        /\ ids_next' = ids_next \o <<ids_current[idx], ids_current[idx]>>
        /\ idx' = idx + 1
        /\ pc' = "process"

\* lines 275-279: execute has returned result; it is appended to the
\* conversation, which goes to the next batch
Requeue(result) ==
    LET updated_conversation ==
            conversation \o stop_string \o OutputOpen \o result \o OutputClose
    IN  /\ executed_result' = result
        /\ next_batch' = Append(next_batch, updated_conversation)
        /\ ids_next' = Append(ids_next, ids_current[idx])
        /\ idx' = idx + 1
        /\ pc' = "process"

\* what the steps of an executor leave alone
ExecFrame ==
    UNCHANGED <<args, stop, tools_script, completed_chats, current_batch, outputs,
                conversation, code_to_execute, ret, ids_current, ids_completed,
                genCalls, hist, execRounds, doneRound, calls, gvars, pvars, avars>>

\* line 57: Sandbox(...) gives a live sandbox, or fails and gives none
SbxNew ==
    /\ pc = "sbx_new"
    /\ \/ /\ sandboxes' = sandboxes + 1
          /\ pc' = IF code_executer.dependencies THEN "sbx_install" ELSE "sbx_run"
          /\ UNCHANGED error
       \/ /\ Raise("SandboxCreateError")
          /\ UNCHANGED sandboxes
    /\ UNCHANGED <<next_batch, ids_next, idx, executed_result, ended>>
    /\ ExecFrame

\* lines 58-61: pip install of the dependencies, which may fail
SbxInstall ==
    /\ pc = "sbx_install"
    /\ \/ /\ pc' = "sbx_run"
          /\ UNCHANGED error
       \/ Raise("InstallError")
    /\ UNCHANGED <<sandboxes, next_batch, ids_next, idx, executed_result, ended>>
    /\ ExecFrame

\* line 62: run_code, which may fail
SbxRun ==
    /\ pc = "sbx_run"
    /\ \/ /\ pc' = "sbx_kill"
          /\ UNCHANGED error
       \/ Raise("RunCodeError")
    /\ UNCHANGED <<sandboxes, next_batch, ids_next, idx, executed_result, ended>>
    /\ ExecFrame

\* lines 63-64, then 277-279: the sandbox is killed, str(response) is returned
SbxKill ==
    /\ pc = "sbx_kill"
    /\ sandboxes' = sandboxes - 1
    /\ Requeue(ResultText)
    /\ UNCHANGED <<error, ended>>
    /\ ExecFrame

\* the ways PythonREPL.run may end: it returns, it raises an Exception, it
\* raises a BaseException that is no Exception (SystemExit, KeyboardInterrupt)
ReplEnds == {"returns", "Exception", "BaseException"}

\* line 102 catching nothing
Caught_nothing(end) == FALSE

\* line 102: what "except Exception" catches
Caught(end) == end = "Exception"

\* lines 98-103, then 277-279: LocalExecutor.execute
LocalRun ==
    /\ pc = "local_run"
    /\ \E end \in ReplEnds :
          /\ ended' = end
          /\ IF end = "returns"
             THEN Requeue(ResultText) /\ UNCHANGED error
             ELSE IF Caught(end)
                  THEN Requeue(ErrorText) /\ UNCHANGED error
                  ELSE /\ Raise(end)
                       /\ UNCHANGED <<next_batch, ids_next, idx, executed_result>>
    /\ UNCHANGED sandboxes
    /\ ExecFrame

\* line 284: the next batch becomes the working batch
EndRound ==
    /\ pc = "process"
    /\ idx > Len(outputs)
    /\ current_batch' = next_batch
    /\ ids_current' = ids_next
    /\ pc' = "loop"
    /\ UNCHANGED <<args, stop, tools_script, completed_chats, next_batch, outputs, idx,
                   conversation, code_to_execute, executed_result, ret, error, sandboxes,
                   ids_next, ids_completed, genCalls, hist, execRounds, doneRound, ended,
                   calls, gvars, pvars, avars>>

\* --------------------------------------- prepare_data_for_*_agent (in Spec)
Roles == {"system", "user"}
Msgs == [role : Roles, content : {<<"c">>}]
Conversations == SeqsOf(Msgs, 0, MaxMsgs)

\* default_system_prompt, default_environment_prompt, the documentation of tools
SystemPrompt == <<"S">>
EnvironmentPrompt == <<"E">>
ToolsDocumentation == <<"\nAvailable tools:\n\n", "T">>

\* the dataset is a list of conversations (the empty one too), or a list of
\* prompt strings; e2b takes a script path, local a list of tools or none
InitPrepare ==
    /\ p_fn \in {"e2b", "local"}
    /\ \/ /\ p_kind = "conversations"
          /\ p_dataset \in SeqsOf(Conversations, 0, MaxConvs)
       \/ /\ p_kind = "prompts"
          /\ p_dataset \in SeqsOf({"u"}, 1, MaxConvs)
    /\ p_source \in IF p_fn = "e2b" THEN Paths ELSE {"none", "tools"}
    /\ p_pc = "call"
    /\ p_conversations = <<>>
    /\ p_system_message = NoMessage
    /\ p_i = 0
    /\ p_error = "none"
    /\ p_orig = <<>>
    /\ p_first = <<>>
    /\ p_calls = 0
    /\ p_templateCalls = 0
    /\ p_rendered = <<>>
    /\ IdleCode
    /\ IdleLoop
    /\ IdleLive

\* lines 134-137, 186-189: prompt strings become one-message conversations
\* (new lists); a list of conversations is taken as it is (the same lists)
Converted(kind, ds) ==
    IF ds # <<>> /\ kind = "prompts"
    THEN [i \in 1..Len(ds) |-> <<[role |-> "user", content |-> <<ds[i]>>]>>]
    ELSE ds

\* lines 140-148, 192-208: the system message
SystemMessage(fn, source, script) ==
    [role |-> "system",
     content |-> IF source = "none" THEN SystemPrompt
                 ELSE IF fn = "e2b"
                      THEN SystemPrompt \o NL \o EnvironmentPrompt \o NL \o script
                      ELSE SystemPrompt \o ToolsDocumentation]

\* lines 152, 212 with the test for a leading system message left out
ShouldInsert_always(convo) == TRUE

\* lines 152, 212: the conversation is empty or does not start with a system
\* message
ShouldInsert(convo) == convo = <<>> \/ convo[1].role # "system"

\* lines 134-148, 186-208: the conversations are built, the tools script is
\* read when a path is given (its failure leaves the function), the system
\* message is made
PrepCall ==
    /\ p_pc = "call"
    /\ p_orig' = p_dataset
    /\ p_conversations' = Converted(p_kind, p_dataset)
    /\ IF p_fn = "e2b" /\ p_source # "none" /\ ~read_script(p_source).ok
       THEN /\ p_pc' = "raised"
            /\ p_error' = "RuntimeError"
            /\ UNCHANGED <<p_system_message, p_i>>
       ELSE /\ p_system_message' =
                  SystemMessage(p_fn, p_source,
                                IF p_fn = "e2b" /\ p_source # "none"
                                THEN read_script(p_source).text ELSE NoScript)
            /\ p_i' = 1
            /\ p_pc' = "insert"
            /\ UNCHANGED p_error
    /\ UNCHANGED <<p_fn, p_kind, p_dataset, p_source, p_first, p_calls,
                   p_templateCalls, p_rendered, gvars, lvars, avars>>

\* lines 151-153, 211-213: one turn of the loop over the conversations; a list
\* of conversations given as the dataset is the list that is changed
PrepInsert ==
    /\ p_pc = "insert"
    /\ p_i <= Len(p_conversations)
    /\ p_conversations' =
          IF ShouldInsert(p_conversations[p_i])
          THEN [p_conversations EXCEPT ![p_i] = <<p_system_message>> \o @]
          ELSE p_conversations
    /\ p_dataset' = IF p_kind = "conversations" THEN p_conversations' ELSE p_dataset
    /\ p_i' = p_i + 1
    /\ UNCHANGED <<p_fn, p_kind, p_source, p_pc, p_system_message, p_error, p_orig,
                   p_first, p_calls, p_templateCalls, p_rendered, gvars, lvars, avars>>

\* lines 156-161, 216-221: apply_chat_template is called on the conversations
\* and its result returned
PrepTemplate ==
    /\ p_pc = "insert"
    /\ p_i > Len(p_conversations)
    /\ p_templateCalls' = p_templateCalls + 1
    /\ p_rendered' = p_conversations
    /\ p_calls' = p_calls + 1
    /\ p_first' = IF p_calls = 0 THEN p_conversations ELSE p_first
    /\ p_pc' = "returned"
    /\ UNCHANGED <<p_fn, p_kind, p_dataset, p_source, p_conversations,
                   p_system_message, p_i, p_error, p_orig, gvars, lvars, avars>>

\* the caller prepares the same dataset again, with the same arguments
PrepAgain ==
    /\ p_pc = "returned"
    /\ p_calls < MaxCalls
    /\ p_pc' = "call"
    /\ UNCHANGED <<p_fn, p_kind, p_dataset, p_source, p_conversations,
                   p_system_message, p_i, p_error, p_orig, p_first, p_calls,
                   p_templateCalls, p_rendered, gvars, lvars, avars>>

\* ------------------------------------------------------------------- Spec
Init == InitAgent \/ InitPrepare

Next ==
    \/ PrepCall
    \/ PrepInsert
    \/ PrepTemplate
    \/ PrepAgain
    \/ Call
    \/ Return
    \/ Generate
    \/ ProcessOutput
    \/ SbxNew
    \/ SbxInstall
    \/ SbxRun
    \/ SbxKill
    \/ LocalRun
    \/ EndRound

Spec == Init /\ [][Next]_vars

\* ------------------------------------------------- claims about the loop
InSeq(x, seq) == \E i \in 1..Len(seq) : seq[i] = x

PosIn(x, seq) == CHOOSE i \in 1..Len(seq) : seq[i] = x

\* a round has ended: the working batch has been replaced by the next batch
RoundEnded == pc \in {"loop", "returned"}

\* the output that round r gave for item j has gone through lines 266-282
Processed(j, r) ==
    \/ r < genCalls
    \/ RoundEnded
    \/ (InSeq(j, ids_current) /\ PosIn(j, ids_current) < idx)

\* C1: at the end of every round the completed chats and the working batch
\* together are as many as the prompts of the dataset.
C1_Conservation ==
    RoundEnded => Len(completed_chats) + Len(current_batch) = Len(dataset)

\* a round has ended with one chat completed and one still in the batch
C1_Witness ==
    /\ pc = "loop"
    /\ genCalls >= 1
    /\ Len(completed_chats) >= 1
    /\ Len(current_batch) >= 1

\* C2, for the E2B executor: a failure of run_code on an item's code does not
\* leave generate_agent_responses.
C2_FailureNeverPropagates ==
    (pc = "raised" /\ code_executer.kind = "E2B") => error # "RunCodeError"

\* C3: whenever E2BExecutor.execute is not running (it has returned or raised),
\* no sandbox is live.
C3_SandboxReleased ==
    pc \notin {"sbx_install", "sbx_run", "sbx_kill"} => sandboxes = 0

C5_NoStopCompletes ==
    \A j \in 1..Len(dataset) : \A k \in 1..Len(hist[j]) :
        hist[j][k].stop_reason # stop_string =>
            /\ k = Len(hist[j])
            /\ <<j, hist[j][k].round>> \notin execRounds
            /\ ~InSeq(j, ids_next)
            /\ Processed(j, hist[j][k].round) =>
                  /\ InSeq(j, ids_completed)
                  /\ doneRound[j] = hist[j][k].round
                  /\ RoundEnded => ~InSeq(j, ids_current)

\* round 1 ended: an item whose output did not stop is complete while another
\* item goes to round 2
C5_Witness ==
    /\ pc = "loop"
    /\ genCalls = 1
    /\ \E j \in 1..Len(dataset) :
          /\ hist[j][1].stop_reason # stop_string
          /\ InSeq(j, ids_completed)
    /\ current_batch # <<>>

\* C6: the working batch never holds more than the dataset, and no step after
\* the batch is set up makes it longer.
C6_BatchNeverGrows ==
    /\ [](Len(current_batch) <= Len(dataset))
    /\ [][pc # "call" => Len(current_batch') <= Len(current_batch)]_vars

\* a round has ended with a shorter, non-empty working batch
C6_Witness ==
    /\ pc = "loop"
    /\ genCalls >= 1
    /\ Len(current_batch) >= 1
    /\ Len(current_batch) < Len(dataset)

\* C7: the returned list is completed_chats, in which a chat completed in an
\* earlier round stands before every chat completed in a later round.
C7_CompletionOrder ==
    /\ Len(ids_completed) = Len(completed_chats)
    /\ pc = "returned" => ret = completed_chats
    /\ \A a, b \in 1..Len(ids_completed) :
          doneRound[ids_completed[a]] < doneRound[ids_completed[b]] => a < b

\* the function has returned the second prompt's chat before the first one's
C7_Witness ==
    /\ pc = "returned"
    /\ Len(ret) = 2
    /\ ids_completed = <<2, 1>>
    /\ doneRound[2] < doneRound[1]

IsPrefix(s, t) == Len(s) <= Len(t) /\ SubSeq(t, 1, Len(s)) = s

IsSuffix(s, t) == Len(s) <= Len(t) /\ SubSeq(t, Len(t) - Len(s) + 1, Len(t)) = s

\* the states in which the outputs of the current round are being processed
InRound == pc \in {"process", "sbx_new", "sbx_install", "sbx_run", "sbx_kill", "local_run"}

\* the chat of the next batch that continues the i-th output of the round
Continued(i, result) ==
    outputs[i].prompt \o outputs[i].text \o stop_string
        \o OutputOpen \o result \o OutputClose

\* C12: a chat put in the next batch is the prompt that was submitted, the
\* completion, the stop string and the executor's result between <output> and
\* </output>; the last one put there holds the result just returned; and the
\* chat an item has in the working batch after a round starts with the chat it
\* had before the round.
C12_TranscriptGrows ==
    /\ [](InRound =>
            /\ \A k \in 1..Len(next_batch) :
                  LET i == PosIn(ids_next[k], ids_current)
                  IN  /\ InSeq(ids_next[k], ids_current)
                      /\ outputs[i].prompt = current_batch[i]
                      /\ outputs[i].stop_reason = stop_string
                      /\ \E result \in {ResultText, ErrorText} :
                            next_batch[k] = Continued(i, result)
            /\ (pc = "process" /\ idx > 1 /\ outputs[idx - 1].stop_reason = stop_string) =>
                  /\ next_batch # <<>>
                  /\ next_batch[Len(next_batch)] = Continued(idx - 1, executed_result))
    /\ [][pc # "call" =>
            \A k \in 1..Len(current_batch') :
                /\ InSeq(ids_current'[k], ids_current)
                /\ IsPrefix(current_batch[PosIn(ids_current'[k], ids_current)],
                            current_batch'[k])]_vars

\* the second round has put a chat in the next batch: it holds two results
C12_Witness ==
    /\ pc = "process"
    /\ genCalls = 2
    /\ idx > 1
    /\ next_batch # <<>>
    /\ Cardinality(Occurrences(next_batch[1], OutputOpen)) = 2

\* the calls of the executor made for the output that round r gave for item j
ExecCalls(j, r) ==
    {n \in 1..Len(calls) : /\ calls[n].op = "execute"
                           /\ calls[n].round = r
                           /\ calls[n].items = <<j>>}

\* the output that round r gave for item j has reached line 275 or line 282
Reached(j, r) ==
    \/ Processed(j, r)
    \/ (InSeq(j, ids_current) /\ PosIn(j, ids_current) = idx /\ pc # "process")

\* C13: the executor is called for an output exactly when the output stopped
\* on the stop string, and then once; an item whose output did not stop that
\* way has no executor call in that round or in any later round.
C13_ExecutesIffStopped ==
    /\ \A n \in 1..Len(calls) :
          calls[n].op = "execute" =>
              \E j \in 1..Len(dataset) : \E k \in 1..Len(hist[j]) :
                  /\ calls[n].items = <<j>>
                  /\ hist[j][k].round = calls[n].round
                  /\ hist[j][k].stop_reason = stop_string
    /\ \A j \in 1..Len(dataset) : \A k \in 1..Len(hist[j]) :
          LET r == hist[j][k].round
          IN  /\ Cardinality(ExecCalls(j, r)) <= 1
              /\ (hist[j][k].stop_reason = stop_string /\ Reached(j, r))
                     => Cardinality(ExecCalls(j, r)) = 1
              /\ hist[j][k].stop_reason # stop_string =>
                     \A r2 \in r..MaxRounds + 1 : ExecCalls(j, r2) = {}

\* in one round the executor was called for one item and not for the other,
\* whose output held code but did not stop on the stop string
C13_Witness ==
    /\ pc = "loop"
    /\ genCalls = 1
    /\ Len(dataset) = 2
    /\ Contains(outputs[2].text, parsing_string)
    /\ Cardinality(ExecCalls(1, 1)) = 1
    /\ ExecCalls(2, 1) = {}
    /\ InSeq(2, ids_completed)

\* the calls of llm.generate that stand before the n-th call of the log
GenerateCallsBefore(n) == {m \in 1..(n - 1) : calls[m].op = "generate"}

\* C14: the generator is called once a round, on the whole working batch, and
\* then the executor is called for outputs of that call only: an executor
\* call stands after the generator call of its round and before the next one.
C14_RoundOrder ==
    /\ Cardinality({n \in 1..Len(calls) : calls[n].op = "generate"}) = genCalls
    /\ \A n \in 1..Len(calls) :
          LET before == GenerateCallsBefore(n)
          IN  IF calls[n].op = "generate"
              THEN calls[n].round = Cardinality(before) + 1
              ELSE /\ before # {}
                   /\ calls[n].round = Cardinality(before)
                   /\ InSeq(calls[n].items[1], calls[SetMax(before)].items)
    /\ InRound =>
          /\ Len(outputs) = Len(current_batch)
          /\ \A i \in 1..Len(outputs) : outputs[i].prompt = current_batch[i]
          /\ \E n \in 1..Len(calls) :
                /\ calls[n] = [op |-> "generate", round |-> genCalls,
                               items |-> ids_current]
                /\ \A m \in (n + 1)..Len(calls) : calls[m].op = "execute"

\* the executor is being called in the second round, after one call in the
\* first round, for a batch of two
C14_Witness ==
    /\ pc \in {"sbx_new", "local_run"}
    /\ genCalls = 2
    /\ Len(current_batch) = 2
    /\ Len(calls) >= 4
    /\ calls[Len(calls)].op = "execute"

\* C15: completed_chats changes only by a chat being appended, and an item
\* that is complete is not put in a batch, given to the generator or given
\* to the executor afterwards.
C15_DoneIsTerminal ==
    /\ [][pc # "call" => /\ IsPrefix(completed_chats, completed_chats')
                         /\ IsPrefix(ids_completed, ids_completed')]_vars
    /\ [](\A j \in 1..Len(dataset) :
             InSeq(j, ids_completed) =>
                 /\ ~InSeq(j, ids_next)
                 /\ RoundEnded => ~InSeq(j, ids_current)
                 /\ \A n \in 1..Len(calls) :
                       InSeq(j, calls[n].items) =>
                           \/ calls[n].round < doneRound[j]
                           \/ calls[n].round = doneRound[j] /\ calls[n].op = "generate")

\* a chat was completed in round 1 and another chat in round 2
C15_Witness ==
    /\ Len(completed_chats) = 2
    /\ genCalls = 2
    /\ doneRound[ids_completed[1]] = 1
    /\ doneRound[ids_completed[2]] = 2

\* how many outputs of item j stopped on the stop string
Stops(j) == Cardinality({k \in 1..Len(hist[j]) : hist[j][k].stop_reason = stop_string})

\* how many times item j stands in the batches given to the generator
Generated(j) ==
    Cardinality({<<n, i>> \in (1..Len(calls)) \X (1..MaxItems + 1) :
                    /\ calls[n].op = "generate"
                    /\ i <= Len(calls[n].items)
                    /\ calls[n].items[i] = j})

\* how many times the executor was called for item j
Executed(j) ==
    Cardinality({n \in 1..Len(calls) : calls[n].op = "execute" /\ calls[n].items = <<j>>})

\* C18: when the function has returned, an item whose outputs stopped on the
\* stop string k times was generated k + 1 times and executed k times; the
\* rounds are one more than the largest k; for an empty dataset the generator
\* was not called and the list returned is empty.
C18_Counts ==
    pc = "returned" =>
        /\ \A j \in 1..Len(dataset) :
              /\ Generated(j) = Stops(j) + 1
              /\ Executed(j) = Stops(j)
        /\ dataset # <<>> =>
              genCalls = 1 + SetMax({Stops(j) : j \in 1..Len(dataset)})
        /\ dataset = <<>> => (genCalls = 0 /\ calls = <<>> /\ ret = <<>>)

\* the function has returned after two rounds: one item stopped once, the
\* other did not stop
C18_Witness ==
    /\ pc = "returned"
    /\ Len(dataset) = 2
    /\ genCalls = 2
    /\ Stops(1) = 1
    /\ Stops(2) = 0
    /\ Executed(1) = 1
    /\ Generated(2) = 1

\* the code without the tools script put before it
OwnCode(code) ==
    IF tools_script # NoScript /\ IsPrefix(tools_script \o NL, code)
    THEN SubSeq(code, Len(tools_script) + 2, Len(code))
    ELSE code

\* the code given to the executor is text of the completion of this round,
\* without the stop string and without an <output> block
FromThisRound(code, output) ==
    /\ IsSuffix(OwnCode(code), output.text)
    /\ ~Contains(OwnCode(code), stop_string)
    /\ ~Contains(OwnCode(code), OutputOpen)
    /\ ~Contains(OwnCode(code), OutputClose)

\* C19: the code given to the executor is text generated in that round, for
\* every completion that stopped on the stop string.
C19_CodeFromThisRound ==
    (InRound /\ pc # "process") => FromThisRound(code_to_execute, outputs[idx])

\* C19, for the completions that hold the open marker: the code given to the
\* executor is text generated in that round, after the open marker.
C19_CodeFromMarkedCompletion ==
    (InRound /\ pc # "process" /\ Contains(outputs[idx].text, parsing_string)) =>
        /\ FromThisRound(code_to_execute, outputs[idx])
        /\ Len(OwnCode(code_to_execute)) < Len(outputs[idx].text)

\* the executor is called in the second round with the code of a completion
\* that holds the open marker, after an earlier code block and its output
C19_Witness ==
    /\ pc \in {"sbx_new", "local_run"}
    /\ genCalls = 2
    /\ Contains(outputs[idx].text, parsing_string)
    /\ Contains(outputs[idx].prompt, OutputOpen)
    /\ tools_script # NoScript
    /\ OwnCode(code_to_execute) = <<"k">>

\* --------------------------------------- claims about the preparation
HasSystem(convo) == \E k \in 1..Len(convo) : convo[k].role = "system"

SystemCount(convo) == Cardinality({k \in 1..Len(convo) : convo[k].role = "system"})

\* C9: when the builder has returned, every conversation that held no system
\* message holds the system message at position 0, followed by what it held,
\* and so exactly one system message; every conversation that started with a
\* system message is as it was; and a second call on the same dataset leaves
\* the conversations as the first call left them.
C9_SystemMessageOnce ==
    p_pc = "returned" =>
        /\ Len(p_conversations) = Len(p_orig)
        /\ \A i \in 1..Len(p_conversations) :
              LET before == Converted(p_kind, p_orig)[i]
                  after == p_conversations[i]
              IN  /\ ~HasSystem(before) =>
                        /\ after = <<p_system_message>> \o before
                        /\ SystemCount(after) = 1
                  /\ (before # <<>> /\ before[1].role = "system") => after = before
        /\ p_calls >= 2 => p_conversations = p_first

\* the builder has returned from its second call on a dataset that holds a
\* conversation with no system message and one that starts with one
C9_Witness ==
    /\ p_pc = "returned"
    /\ p_calls = 2
    /\ p_kind = "conversations"
    /\ Len(p_first) = 2
    /\ Len(p_first[1]) = 2
    /\ p_first[1][2].role = "user"
    /\ Len(p_first[2]) = 1
    /\ p_conversations = p_first

\* C16: when the builder has returned, every conversation that did not start
\* with a system message, one that was empty or held a system message further
\* on included, holds exactly one system message, at position 0.
C16_ExactlyOneSystemFirst ==
    p_pc = "returned" =>
        \A i \in 1..Len(p_conversations) :
            LET before == Converted(p_kind, p_orig)[i]
                after == p_conversations[i]
            IN  (before = <<>> \/ before[1].role # "system") =>
                    /\ after # <<>>
                    /\ after[1].role = "system"
                    /\ SystemCount(after) = 1

\* C16, for the conversations that hold no system message or one system
\* message, at position 0: when the builder has returned they hold exactly one
\* system message, at position 0; a conversation that held a system message
\* but not at position 0 holds the builder's system message before all it
\* held, and so one system message more.
C16_OneSystemWhenWellFormed ==
    p_pc = "returned" =>
        \A i \in 1..Len(p_conversations) :
            LET before == Converted(p_kind, p_orig)[i]
                after == p_conversations[i]
            IN  /\ (\/ SystemCount(before) = 0
                    \/ SystemCount(before) = 1 /\ before[1].role = "system") =>
                       /\ after # <<>>
                       /\ after[1].role = "system"
                       /\ SystemCount(after) = 1
                /\ (HasSystem(before) /\ before[1].role # "system") =>
                       /\ after = <<p_system_message>> \o before
                       /\ SystemCount(after) = SystemCount(before) + 1

\* the builder has returned an empty conversation with the system message
\* alone and a conversation that ended with a system message with two
C16_Witness ==
    /\ p_pc = "returned"
    /\ p_kind = "conversations"
    /\ Len(p_orig) = 2
    /\ p_orig[1] = <<>>
    /\ Len(p_orig[2]) = 2
    /\ p_orig[2][1].role = "user"
    /\ p_orig[2][2].role = "system"
    /\ p_conversations[1] = <<p_system_message>>
    /\ SystemCount(p_conversations[2]) = 2

\* C10: with an unreadable script, generate_agent_responses raises from its
\* first lines: no generator call, no executor call and no sandbox precede it;
\* prepare_data_for_e2b_agent raises before apply_chat_template is called and
\* with the dataset and the conversations as they were given.
C10_FailFast ==
    /\ tools_script_path = "unreadable" =>
          /\ pc \in {"call", "raised"}
          /\ pc = "raised" => error = "ScriptReadError"
          /\ genCalls = 0
          /\ execRounds = {}
          /\ sandboxes = 0
          /\ outputs = <<>>
    /\ (p_fn = "e2b" /\ p_source = "unreadable") =>
          /\ p_pc \in {"call", "raised"}
          /\ p_pc = "raised" => p_error = "RuntimeError"
          /\ p_templateCalls = 0
          /\ p_pc = "raised" =>
                /\ p_dataset = p_orig
                /\ p_conversations = Converted(p_kind, p_orig)
                /\ p_system_message = NoMessage

\* generate_agent_responses has raised on a dataset of two prompts, with an
\* executor at hand
C10_Witness ==
    /\ pc = "raised"
    /\ error = "ScriptReadError"
    /\ Len(dataset) = 2
    /\ genCalls = 0

\* prepare_data_for_e2b_agent has raised on a dataset that holds a
\* conversation with no system message
C10_WitnessPrepare ==
    /\ p_pc = "raised"
    /\ p_error = "RuntimeError"
    /\ p_kind = "conversations"
    /\ \E i \in 1..Len(p_dataset) : ~HasSystem(p_dataset[i])

\* ------------------------- SpecLive: the loop of generate_agent_responses
\* The loop as in Spec, with each chat taken as the index of its prompt: which
\* branch an output takes depends on its stop_reason alone (line 271), not on
\* the text of the chat.  No bound stops the rounds, and the state is finite.
InitLive ==
    /\ a_path \in Paths
    /\ a_n \in 0..MaxItems
    /\ a_pc = "call"
    /\ a_batch = <<>>
    /\ a_next = <<>>
    /\ a_completed = <<>>
    /\ a_reasons = <<>>
    /\ a_idx = 0
    /\ a_got = {}
    /\ IdleCode
    /\ IdleLoop
    /\ IdlePrepare

\* lines 255-258: the tools script is read when a path is given (its failure
\* ends the call), the two lists are set up
LiveCall ==
    /\ a_pc = "call"
    /\ IF a_path # "none" /\ ~read_script(a_path).ok
       THEN /\ a_pc' = "raised"
            /\ UNCHANGED <<a_completed, a_batch>>
       ELSE /\ a_completed' = <<>>
            /\ a_batch' = [i \in 1..a_n |-> i]
            /\ a_pc' = "loop"
    /\ UNCHANGED <<a_path, a_n, a_next, a_reasons, a_idx, a_got, gvars, lvars, pvars>>

\* lines 260, 286: the working batch is empty, completed_chats is returned
LiveReturn ==
    /\ a_pc = "loop"
    /\ a_batch = <<>>
    /\ a_pc' = "returned"
    /\ UNCHANGED <<a_path, a_n, a_batch, a_next, a_completed, a_reasons, a_idx,
                   a_got, gvars, lvars, pvars>>

\* lines 260-263: llm.generate gives one output, with its stop reason, per chat
\* of the working batch
LiveGenerate ==
    /\ a_pc = "loop"
    /\ a_batch # <<>>
    /\ \E rs \in [1..Len(a_batch) -> StopReasons] :
          /\ a_reasons' = rs
          /\ a_got' = a_got \cup {a_batch[i] : i \in {k \in 1..Len(a_batch) :
                                                       rs[k] # stop_string}}
    /\ a_next' = <<>>
    /\ a_idx' = 1
    /\ a_pc' = "process"
    /\ UNCHANGED <<a_path, a_n, a_batch, a_completed, gvars, lvars, pvars>>

\* lines 266-271, 280-282: an output that does not wait for code is complete
LiveComplete ==
    /\ a_pc = "process"
    /\ a_idx <= Len(a_reasons)
    /\ ~WaitsForCode([stop_reason |-> a_reasons[a_idx]])
    /\ a_completed' = Complete(a_completed, a_batch[a_idx])
    /\ a_idx' = a_idx + 1
    /\ UNCHANGED <<a_path, a_n, a_pc, a_batch, a_next, a_reasons, a_got,
                   gvars, lvars, pvars>>

\* lines 266-279: an output that waits for code: execute returns and the chat
\* goes to the next batch, or execute raises (lines 57-64 catch nothing, line
\* 102 catches Exception only) and the call ends
LiveExecute ==
    /\ a_pc = "process"
    /\ a_idx <= Len(a_reasons)
    /\ WaitsForCode([stop_reason |-> a_reasons[a_idx]])
    /\ \/ /\ a_next' = Append(a_next, a_batch[a_idx])
          /\ a_idx' = a_idx + 1
          /\ UNCHANGED a_pc
       \/ /\ a_pc' = "raised"
          /\ UNCHANGED <<a_next, a_idx>>
    /\ UNCHANGED <<a_path, a_n, a_batch, a_completed, a_reasons, a_got,
                   gvars, lvars, pvars>>

\* line 284: the next batch becomes the working batch
LiveEndRound ==
    /\ a_pc = "process"
    /\ a_idx > Len(a_reasons)
    /\ a_batch' = a_next
    /\ a_pc' = "loop"
    /\ UNCHANGED <<a_path, a_n, a_next, a_completed, a_reasons, a_idx, a_got,
                   gvars, lvars, pvars>>

NextLive ==
    \/ LiveCall
    \/ LiveReturn
    \/ LiveGenerate
    \/ LiveComplete
    \/ LiveExecute
    \/ LiveEndRound

\* the loop is one sequential program whose calls return: it goes on as long
\* as it has a step to take
SpecLive == InitLive /\ [][NextLive]_vars /\ WF_vars(NextLive)

\* C11: for every behaviour of the generator the call ends: it returns (or an
\* executor error ends it).
C11_Terminates == <>(a_pc \in {"returned", "raised"})

\* C17: if every item of the dataset is at some time given a completion that
\* does not stop on the stop string, the call returns, and at the return the
\* working batch is empty and the completed chats are one per item.
C17_ReturnsAll ==
    (\A i \in Items : <>(i > a_n \/ i \in a_got))
        => <>(/\ a_pc = "returned"
              /\ a_batch = <<>>
              /\ Len(a_completed) = a_n
              /\ \A i \in 1..a_n : \E k \in 1..Len(a_completed) : a_completed[k] = i)

\* C17 amended: the same, provided the tools script can be read when a path
\* to it is given (an unreadable script ends the call at line 255, also for an
\* empty dataset).
C17_ReturnsAllReadable ==
    (/\ a_path # "unreadable"
     /\ \A i \in Items : <>(i > a_n \/ i \in a_got))
        => <>(/\ a_pc = "returned"
              /\ a_batch = <<>>
              /\ Len(a_completed) = a_n
              /\ \A i \in 1..a_n : \E k \in 1..Len(a_completed) : a_completed[k] = i)

\* the call has returned the chats of two items, the first of which went
\* through the executor before it was completed
C17_Witness ==
    /\ a_pc = "returned"
    /\ a_n = 2
    /\ a_completed = <<2, 1>>
    /\ a_got = {1, 2}

\* ------------------------------------------------------- SpecCode: get_code
InitCode ==
    /\ g_pc = "call"
    /\ g_chat \in Chats
    /\ g_script \in Scripts
    /\ g_marker \in Markers
    /\ g_result = <<>>
    /\ IdleLoop
    /\ IdlePrepare
    /\ IdleLive

GetCode ==
    /\ g_pc = "call"
    /\ g_result' = get_code(g_chat, g_script, g_marker)
    /\ g_pc' = "returned"
    /\ UNCHANGED <<g_chat, g_script, g_marker>>
    /\ UNCHANGED <<lvars, pvars, avars>>

NextCode == GetCode

SpecCode == InitCode /\ [][NextCode]_vars

\* the marker can overlap itself: a proper prefix of it is also its suffix
SelfOverlap(sep) ==
    \E k \in 1..(Len(sep) - 1) : SubSeq(sep, 1, k) = SubSeq(sep, Len(sep) - k + 1, Len(sep))

\* the text strictly after the last place where sep occurs in s
AfterLastOccurrence(s, sep) ==
    LET i == SetMax(Occurrences(s, sep))
    IN  SubSeq(s, i + Len(sep), Len(s))

Prefixed(script, code) == IF script # NoScript THEN script \o NL \o code ELSE code

\* C8 as stated: for every transcript that contains the marker, get_code
\* returns exactly the text strictly after the marker's last occurrence
\* (with the helper and a newline before it when a helper is given).
C8_AfterLastOccurrence ==
    (g_pc = "returned" /\ Contains(g_chat, g_marker))
        => g_result = Prefixed(g_script, AfterLastOccurrence(g_chat, g_marker))

\* C8 amended: for every transcript that contains the marker, get_code returns
\* (after the helper and a newline, when a non-empty helper is given) the text
\* that follows one occurrence of the marker and holds no occurrence of it;
\* for every marker that cannot overlap itself (the default "<code>" is one)
\* that is exactly the text strictly after the marker's last occurrence.
C8_Extract ==
    (g_pc = "returned" /\ Contains(g_chat, g_marker)) =>
        /\ \E at \in Occurrences(g_chat, g_marker) :
              LET code == SubSeq(g_chat, at + Len(g_marker), Len(g_chat))
              IN  /\ g_result = Prefixed(g_script, code)
                  /\ ~Contains(code, g_marker)
        /\ ~SelfOverlap(g_marker)
             => g_result = Prefixed(g_script, AfterLastOccurrence(g_chat, g_marker))

\* a marker occurring twice, a helper given, and get_code has returned
C8_Witness ==
    /\ g_pc = "returned"
    /\ Cardinality(Occurrences(g_chat, g_marker)) >= 2
    /\ ~SelfOverlap(g_marker)
    /\ g_script # NoScript
    /\ Len(g_result) > Len(g_script) + 1

====
